---- MODULE Spec2Model ----
(***************************************************************************)
(* Retry / fallback / backoff logic of the memeanon DexTools scripts.      *)
(*                                                                         *)
(*   dextools_demo.py         DexToolsAPI (__init__, _make_request,        *)
(*                            get_solana_hot_pairs)                        *)
(*   dextools_v2_demo.py      DexToolsDemo (__init__, get_recent_pools)    *)
(*   solana_dextools_api.py   SolanaDexToolsAPI._make_api_call, main       *)
(*   solana_gpt_analysis.py   get_solana_gainers, run_analysis             *)
(*                                                                         *)
(* One run executes one of the scripts (variable flow).  Times are in      *)
(* ticks of 1/JitterRes second.  A URL is the triple <<base, template,     *)
(* chain>>: string concatenation and str.format are injective on the       *)
(* lists the code uses, so the triple identifies the URL string.           *)
(***************************************************************************)
EXTENDS Integers, Sequences, FiniteSets, TLC

\* ---------------------------------------------------------------- bounds
MaxAlt == 1
NumChainIds == 2
NumTemplates == 2
MaxRetries == 2
NumUserAgents == 2
JitterRes == 2
MaxCalls == 2
NumThreads == 2
MaxResults == 3
MaxLimit == 2
MaxLiq == 1

\* ------------------------------------------------------ program constants
DEFAULT_MAX_RETRIES == 3
DEFAULT_BASE_DELAY == 2
POOLS_MAX_RETRIES == 3
POOLS_RETRY_DELAY == 2

VARIABLES
    flow,                   \* which script this run executes
    env_key,                \* TRUE iff DEXTOOLS_API_KEY is set in the environment
    pc,                     \* position of the running script
    api_key,                \* self.api_key ("None" before construction)
    alternative_base_urls,  \* self.alternative_base_urls
    headers,                \* self.headers: index of the chosen User-Agent, 0 = unset
    op,                     \* the logical operation in progress
    max_retries,            \* max_retries / retries argument of the operation
    i_ep,                   \* position in the chain_id x template loops
    i_url,                  \* position in urls_to_try
    attempt,                \* loop variable attempt / retry
    last_exception,         \* _make_request's last_exception
    result,                 \* what the logical operation handed to its caller
    inflight,               \* network requests issued and not yet answered
    sent,                   \* TRUE iff a network request was issued in this run
    endpoints,              \* endpoints this call handed to _make_request, in order
    attemptLog,             \* URLs of the network attempts of this _make_request, in order
    visited,                \* URLs this _make_request took as current candidate, in order
    taken,                  \* candidates taken as current candidate in this call
    attempted,              \* candidates of this call with at least one network attempt
    waits,                  \* backoff waits (ticks) taken on the current candidate
    okAt,                   \* index in attemptLog of the attempt answered with success
    otherRaised,            \* an attempt raised a non-RequestException in this call
    calls,                  \* logical calls started on this client
    trace,                  \* TRUE iff the run keeps callLog and client_at_call
    callLog,                \* URLs of all network attempts of this call, in order
    prevLog,                \* callLog of the previous logical call
    client_at_call,         \* the client's fields when the current logical call started
    fresh,                  \* TRUE iff _generate_headers ran since the last attempt went out
    answer,                 \* the answer to the last attempt of _make_request / _make_api_call
    events,                 \* sleeps and requests of _make_request on the current candidate, in order
    threads,                \* the _make_request calls of concurrent threads on one client
    fn,                     \* the data method or analysis flow this run executes
    api_result,             \* what the market-data fetch handed back
    results,                \* response["data"]["results"]: the raw pairs, in API order
    limit,                  \* argument limit
    min_liquidity,          \* argument min_liquidity
    ret,                    \* what the method handed to its caller
    tokens,                 \* the fetched list an analysis flow iterates over
    tok_i,                  \* tokens the analysis loop has taken so far
    analysed,               \* the local list results of the analysis loop
    llm_calls,              \* calls of _call_openai_api in this run
    files_written,          \* analysis files written in this run
    steps,                  \* <<k, step>>: the steps the analysis loop took on its k-th token, in order
    demo_step,              \* the step of run_demo that is next or in progress; 9 = none left, 10 = run_demo is over
    closes                  \* calls of demo.client.close()

vars == <<flow, env_key, pc, api_key, alternative_base_urls, headers, op,
          max_retries, i_ep, i_url, attempt, last_exception, result, inflight,
          sent, endpoints, attemptLog, visited, taken, attempted, waits, okAt,
          otherRaised, calls, trace, callLog, prevLog, client_at_call,
          fresh, events, answer, threads, fn, api_result, results, limit, min_liquidity, ret, tokens,
          tok_i, analysed, llm_calls, files_written, steps, demo_step, closes>>

envVars == <<flow, env_key, trace>>
demoVars == <<demo_step, closes>>
dataVars == <<fn, api_result, results, limit, min_liquidity, ret, tokens, tok_i,
              analysed, llm_calls, files_written, steps>>
sideVars == <<client_at_call, fresh, events, answer, threads, dataVars>>
clientVars == <<api_key, alternative_base_urls, headers>>
loopVars == <<i_ep, i_url, attempt, last_exception>>
reqVars == <<attemptLog, visited, waits, okAt>>
callHist == <<endpoints, taken, attempted, otherRaised, callLog>>

Flows == {"dextools_demo", "dextools_v2_demo", "solana_api", "solana_gpt_analysis"}

RECURSIVE Pow2(_)
Pow2(n) == IF n = 0 THEN 1 ELSE 2 * Pow2(n - 1)

Range(s) == {s[i] : i \in 1..Len(s)}

NoResult == [kind |-> "none"]
Returned(v) == [kind |-> "return", value |-> v]
Raised(e, m) == [kind |-> "raise", exc |-> e, msg |-> m]

\* ------------------------------------------------------------ environment
\* What one network attempt can come back with.
\*   ok            2xx, JSON body
\*   ok_empty      2xx, empty body
\*   rate_limited  2xx, JSON body {"message": "Too Many Requests"}
\*   bad_json_new  2xx, undecodable body, requests >= 2.27 (JSONDecodeError is a RequestException)
\*   bad_json_old  2xx, undecodable body, older requests (a plain ValueError)
\*   http_error    non-2xx status
\*   conn_error    connection failure
NetOutcomes == {"ok", "ok_empty", "rate_limited", "bad_json_new", "bad_json_old",
                "http_error", "conn_error"}

\* the remote answered with a success status and a decodable (or empty) body
\* that carries no rate-limit marker
SuccessOutcomes == {"ok", "ok_empty"}

\* --------------------------------------------- dextools_demo.py: helpers
\* the client is built without looking at the key
KeyCheckSkipped(key_present) == FALSE

\* os.getenv('DEXTOOLS_API_KEY') is None or empty: "if not self.api_key"
KeyMissing(key_present) == ~key_present

\* one right answer of random.choice(self.USER_AGENTS)
UserAgents == 1..NumUserAgents

\* the three get_solana_* methods run the same two loops over their own lists
chain_ids == 1..NumChainIds
endpoint_templates == 1..NumTemplates
NumEndpoints == NumChainIds * NumTemplates

\* the two loops nested the other way round: template outside, chain id inside
EndpointAtTemplateOuter(i) ==
    <<((i - 1) \div NumChainIds) + 1, ((i - 1) % NumChainIds) + 1>>

\* endpoint = template.format(chain_id) of the i-th iteration of
\* "for chain_id in chain_ids: for template in endpoint_templates"
EndpointAt(i) == <<((i - 1) % NumTemplates) + 1, ((i - 1) \div NumTemplates) + 1>>

\* f"{base}{endpoint}"
Url(base, endpoint) == <<base, endpoint[1], endpoint[2]>>

\* self.base_url is base 0, the alternatives are 1, 2, ...
base_url == 0

\* the alternatives are left out of the list
urls_to_try_primary_only(base, alts, endpoint) == <<Url(base, endpoint)>>

urls_to_try(base, alts, endpoint) ==
    <<Url(base, endpoint)>> \o [i \in 1..Len(alts) |-> Url(alts[i], endpoint)]

\* response.json() is called on an empty body too, and raises
ClassifyDecodeEmpty(o) ==
    CASE o \in {"ok", "rate_limited"} -> "return"
      [] o \in {"http_error", "conn_error", "bad_json_new"} -> "request_exception"
      [] o \in {"bad_json_old", "ok_empty"} -> "other_exception"

\* how the try block of _make_request ends for a given answer
Classify(o) ==
    CASE o \in {"ok", "ok_empty", "rate_limited"} -> "return"
      [] o \in {"http_error", "conn_error", "bad_json_new"} -> "request_exception"
      [] o = "bad_json_old" -> "other_exception"

\* an empty body is handed back as None
PayloadEmptyAsNone(o) ==
    CASE o = "ok" -> "data"
      [] o = "ok_empty" -> "None"
      [] o = "rate_limited" -> "too_many_requests"

\* response.json() if response.text else {"status": "ok"}
Payload(o) ==
    CASE o = "ok" -> "data"
      [] o = "ok_empty" -> "status_ok"
      [] o = "rate_limited" -> "too_many_requests"

\* the exception an answer makes the try block raise
ExceptionOf(o) ==
    CASE o = "http_error" -> "HTTPError"
      [] o = "conn_error" -> "ConnectionError"
      [] OTHER -> "JSONDecodeError"

\* the last attempt on a URL is followed by a backoff wait and one more attempt
ShouldRetryAfterLast(a, r) == a < r

\* "if attempt < max_retries - 1"
ShouldRetry(a, r) == a < r - 1

\* a retry goes out right after its backoff wait, without a delay of its own
PreRequestDelayFirstOnly(ev) == IF ev = <<>> THEN Append(ev, "pre_delay") ELSE ev

\* time.sleep(random.uniform(0.5, 1.5)), first statement of the try block
PreRequestDelay(ev) == Append(ev, "pre_delay")

\* the delay does not grow with the attempt index
BackoffDelayFlat(base_delay, a, jitter) == base_delay * JitterRes + jitter

\* delay = base_delay * (2 ** attempt) + random.uniform(0, 1), in ticks
BackoffDelay(base_delay, a, jitter) == base_delay * Pow2(a) * JitterRes + jitter

\* the last request exception is raised again instead of the fixed failure
ReraiseLast(last) == Raised(last, "request failed")

\* raise Exception("Failed to connect to any DexTools API endpoint")
MakeRequestFailure(last) ==
    Raised("Exception", "Failed to connect to any DexTools API endpoint")

\* raise Exception("Failed to fetch hot pairs for Solana from any endpoint")
HotPairsFailure ==
    Raised("Exception", "Failed to fetch hot pairs for Solana from any endpoint")

\* the position in urls_to_try survives from the previous _make_request
EnterMakeRequestStale ==
    /\ i_url' = i_url
    /\ last_exception' = "None"
    /\ attemptLog' = <<>>
    /\ visited' = <<>>
    /\ waits' = <<>>
    /\ okAt' = 0

\* entry of _make_request: a fresh urls_to_try iteration, last_exception = None
EnterMakeRequest ==
    /\ i_url' = 0
    /\ last_exception' = "None"
    /\ attemptLog' = <<>>
    /\ visited' = <<>>
    /\ waits' = <<>>
    /\ okAt' = 0

CurrentUrls == urls_to_try(base_url, alternative_base_urls, EndpointAt(i_ep))

\* what a call has done so far, at its start
ResetHistory ==
    /\ taken' = 0
    /\ attempted' = 0
    /\ otherRaised' = FALSE
    /\ callLog' = <<>>

\* --------------------------------------------- dextools_demo.py: actions
\* the history kept for one more network attempt against target u
LogAttempt(u) ==
    /\ attemptLog' = Append(attemptLog, u)
    /\ attempted' = IF u \in Range(attemptLog) THEN attempted ELSE attempted + 1
    /\ callLog' = IF trace THEN Append(callLog, u) ELSE callLog
    /\ inflight' = inflight + 1
    /\ sent' = TRUE

\* DexToolsAPI.__init__
Construct ==
    /\ flow = "dextools_demo"
    /\ pc = "start"
    /\ IF KeyMissing(env_key)
       THEN /\ pc' = "config_error"
            /\ result' = Raised("ValueError", "API key not found")
            /\ UNCHANGED <<clientVars, fresh>>
       ELSE /\ api_key' = "key"
            /\ \E n \in 0..MaxAlt : alternative_base_urls' = [i \in 1..n |-> i]
            /\ \E ua \in UserAgents : headers' = ua
            /\ fresh' = TRUE
            /\ pc' = "ready"
            /\ UNCHANGED result
    /\ UNCHANGED <<envVars, demoVars, client_at_call, events, answer, threads, dataVars, op, max_retries, loopVars, inflight, sent, reqVars,
                   callHist, calls, prevLog>>

\* get_solana_hot_pairs up to its first _make_request(endpoint)
CallHotPairs ==
    /\ flow = "dextools_demo"
    /\ pc = "ready"
    /\ calls = 0
    /\ op' = "hot_pairs"
    /\ max_retries' = DEFAULT_MAX_RETRIES
    /\ i_ep' = 1
    /\ endpoints' = <<EndpointAt(1)>>
    /\ EnterMakeRequest
    /\ calls' = calls + 1
    /\ pc' = "for_url"
    /\ client_at_call' = IF trace THEN clientVars ELSE client_at_call
    /\ UNCHANGED <<envVars, demoVars, fresh, events, answer, threads, dataVars, clientVars, attempt, result, inflight, sent, taken,
                   attempted, otherRaised, callLog, prevLog>>

\* _make_request(endpoint, max_retries = r) called on its own
CallMakeRequest ==
    /\ flow = "dextools_demo"
    /\ pc = "ready"
    /\ calls = 0
    /\ op' = "make_request"
    /\ \E r \in 0..MaxRetries : max_retries' = r
    /\ i_ep' = 1
    /\ endpoints' = <<EndpointAt(1)>>
    /\ EnterMakeRequest
    /\ calls' = calls + 1
    /\ pc' = "for_url"
    /\ client_at_call' = IF trace THEN clientVars ELSE client_at_call
    /\ UNCHANGED <<envVars, demoVars, fresh, events, answer, threads, dataVars, clientVars, attempt, result, inflight, sent, taken,
                   attempted, otherRaised, callLog, prevLog>>

\* "for url in urls_to_try": take the next URL and refresh the headers, or
\* fall out of the loop and raise
ForUrl ==
    /\ flow = "dextools_demo"
    /\ pc = "for_url"
    /\ IF i_url < Len(CurrentUrls)
       THEN /\ i_url' = i_url + 1
            /\ \E ua \in UserAgents : headers' = ua
            /\ visited' = Append(visited, CurrentUrls[i_url + 1])
            /\ fresh' = TRUE
            /\ events' = <<>>
            /\ taken' = taken + 1
            /\ attempt' = 0
            /\ waits' = <<>>
            /\ pc' = IF max_retries > 0 THEN "send" ELSE "for_url"
            /\ UNCHANGED result
       ELSE /\ IF op = "hot_pairs"
               THEN pc' = "for_endpoint" /\ UNCHANGED result
               ELSE /\ pc' = "done"
                    /\ result' = MakeRequestFailure(last_exception)
            /\ UNCHANGED <<i_url, headers, fresh, events, visited, taken, attempt, waits>>
    /\ UNCHANGED <<envVars, demoVars, client_at_call, answer, threads, dataVars, api_key, alternative_base_urls, op, max_retries, i_ep,
                   last_exception, inflight, sent, endpoints, attemptLog,
                   attempted, okAt, otherRaised, callLog, calls, prevLog>>

\* the request is handed to the network and the loop goes on without waiting
\* for its answer
SendRequestAsync ==
    /\ flow = "dextools_demo"
    /\ pc = "send"
    /\ LogAttempt(CurrentUrls[i_url])
    /\ fresh' = FALSE
    /\ events' = Append(PreRequestDelay(events), "get")
    /\ pc' = "send"
    /\ UNCHANGED <<envVars, demoVars, client_at_call, answer, threads, dataVars, clientVars, op, max_retries, loopVars, result,
                   endpoints, visited, taken, waits, okAt, otherRaised, calls,
                   prevLog>>

\* the pre-request sleep, then requests.get(url, headers, params) goes out
SendRequest ==
    /\ flow = "dextools_demo"
    /\ pc = "send"
    /\ LogAttempt(CurrentUrls[i_url])
    /\ fresh' = FALSE
    /\ events' = Append(PreRequestDelay(events), "get")
    /\ pc' = "wait_response"
    /\ UNCHANGED <<envVars, demoVars, client_at_call, answer, threads, dataVars, clientVars, op, max_retries, loopVars, result,
                   endpoints, visited, taken, waits, okAt, otherRaised, calls,
                   prevLog>>

\* the rest of the try block and the except clause, for the answer o
HandleResponse(o) ==
    /\ flow = "dextools_demo"
    /\ pc = "wait_response"
    /\ inflight' = inflight - 1
    /\ answer' = o
    /\ okAt' = IF o \in SuccessOutcomes THEN Len(attemptLog) ELSE okAt
    /\ CASE Classify(o) = "return" ->
              /\ result' = Returned(Payload(o))
              /\ pc' = "done"
              /\ UNCHANGED <<last_exception, attempt, waits, events, otherRaised>>
         [] Classify(o) = "request_exception" ->
              /\ last_exception' = ExceptionOf(o)
              /\ IF ShouldRetry(attempt, max_retries)
                 THEN /\ \E j \in 0..(JitterRes - 1) :
                            waits' = Append(waits,
                                       BackoffDelay(DEFAULT_BASE_DELAY, attempt, j))
                      /\ events' = Append(events, "backoff")
                      /\ attempt' = attempt + 1
                      /\ pc' = "send"
                 ELSE /\ pc' = "for_url"
                      /\ UNCHANGED <<attempt, waits, events>>
              /\ UNCHANGED <<result, otherRaised>>
         [] Classify(o) = "other_exception" ->
              /\ otherRaised' = TRUE
              /\ IF op = "hot_pairs"
                 THEN pc' = "for_endpoint" /\ UNCHANGED result
                 ELSE pc' = "done" /\ result' = Raised("ValueError", ExceptionOf(o))
              /\ UNCHANGED <<last_exception, attempt, waits, events>>
    /\ UNCHANGED <<envVars, demoVars, client_at_call, fresh, threads, dataVars, clientVars, op, max_retries, i_ep, i_url, sent,
                   endpoints, attemptLog, visited, taken, attempted, callLog,
                   calls, prevLog>>

Respond == \E o \in NetOutcomes : HandleResponse(o)

\* "except Exception ... continue" of get_solana_hot_pairs: the next endpoint,
\* or the raise after the loops
ForEndpoint ==
    /\ flow = "dextools_demo"
    /\ pc = "for_endpoint"
    /\ IF i_ep < NumEndpoints
       THEN /\ i_ep' = i_ep + 1
            /\ endpoints' = Append(endpoints, EndpointAt(i_ep + 1))
            /\ EnterMakeRequest
            /\ pc' = "for_url"
            /\ UNCHANGED result
       ELSE /\ pc' = "done"
            /\ result' = HotPairsFailure
            /\ UNCHANGED <<i_ep, endpoints, i_url, last_exception, reqVars>>
    /\ UNCHANGED <<envVars, demoVars, sideVars, clientVars, op, max_retries, attempt, inflight, sent,
                   taken, attempted, otherRaised, callLog, calls, prevLog>>

\* ------------------------------------------------- dextools_v2_demo.py
\* what a call of the dextools_python client can come back with: a decoded
\* body, or an exception
LibOutcomes == {"ok", "rate_limited", "http_error", "conn_error"}

\* the one target of an operation that has no fallback candidates
SingleTarget == <<0, 0, 0>>

\* isinstance(recent_pools, dict) and recent_pools.get("message") == "Too Many Requests"
IsRateLimited(o) == o = "rate_limited"

\* wait_time = retry_delay * (2 ** retry), in ticks
PoolsWait(retry_delay, retry) == retry_delay * Pow2(retry) * JitterRes

\* DexToolsDemo.__init__
ConstructDemo ==
    /\ flow = "dextools_v2_demo"
    /\ pc = "start"
    /\ IF KeyMissing(env_key)
       THEN /\ pc' = "config_error"
            /\ result' = Raised("ValueError", "API key not found")
            /\ UNCHANGED api_key
       ELSE /\ api_key' = "key"
            /\ pc' = "ready"
            /\ UNCHANGED result
    /\ UNCHANGED <<envVars, demoVars, sideVars, alternative_base_urls, headers, op, max_retries,
                   loopVars, inflight, sent, reqVars, callHist, calls, prevLog>>

\* step 7 of run_demo: get_recent_pools up to the first iteration of "for retry in range(max_retries)"
CallRecentPools ==
    /\ flow = "dextools_v2_demo"
    /\ pc = "ready"
    /\ demo_step = 7
    /\ calls = 0
    /\ op' = "recent_pools"
    /\ max_retries' = POOLS_MAX_RETRIES
    /\ attempt' = 0
    /\ taken' = 1
    /\ calls' = calls + 1
    /\ pc' = "send"
    /\ UNCHANGED <<envVars, demoVars, sideVars, clientVars, i_ep, i_url, last_exception, result,
                   inflight, sent, reqVars, endpoints, attempted, otherRaised,
                   callLog, prevLog>>

\* await self.client.get_pools(...) goes out
PoolsSend ==
    /\ flow = "dextools_v2_demo"
    /\ pc = "send"
    /\ LogAttempt(SingleTarget)
    /\ pc' = "wait_response"
    /\ UNCHANGED <<envVars, demoVars, sideVars, clientVars, op, max_retries, loopVars, result,
                   endpoints, visited, taken, waits, okAt, otherRaised, calls,
                   prevLog>>

\* the rest of the inner try block and its except clause, for the answer o
PoolsHandle(o) ==
    /\ flow = "dextools_v2_demo"
    /\ pc = "wait_response"
    /\ inflight' = inflight - 1
    /\ okAt' = IF o \in SuccessOutcomes THEN Len(attemptLog) ELSE okAt
    /\ CASE o = "ok" ->
              /\ result' = Returned(Payload(o))
              /\ pc' = "done"
              /\ UNCHANGED <<attempt, waits>>
         [] IsRateLimited(o) ->
              IF ShouldRetry(attempt, max_retries)
              THEN /\ waits' = Append(waits, PoolsWait(POOLS_RETRY_DELAY, attempt))
                   /\ attempt' = attempt + 1
                   /\ pc' = "send"
                   /\ UNCHANGED result
              ELSE /\ result' = Returned(Payload(o))
                   /\ pc' = "done"
                   /\ UNCHANGED <<attempt, waits>>
         [] OTHER ->
              IF ShouldRetry(attempt, max_retries)
              THEN /\ waits' = Append(waits, PoolsWait(POOLS_RETRY_DELAY, attempt))
                   /\ attempt' = attempt + 1
                   /\ pc' = "send"
                   /\ UNCHANGED result
              ELSE /\ result' = Raised(ExceptionOf(o), "get_pools failed")
                   /\ pc' = "done"
                   /\ UNCHANGED <<attempt, waits>>
    /\ UNCHANGED <<envVars, demoVars, sideVars, clientVars, op, max_retries, i_ep, i_url,
                   last_exception, sent, attemptLog, visited, callHist, calls,
                   prevLog>>

PoolsRespond == \E o \in LibOutcomes : PoolsHandle(o)

\* how a step of run_demo other than step 7 ends: the call returned a dict
\* with data, returned one without, or the step's try block raised
StepOutcomes == {"data", "no_data", "raised"}

\* the step run_demo takes after step n ended with o: steps 3 and 4 are nested
\* in step 2, step 4 in step 3; 9 = the last step is over
NextStep(n, o) ==
    CASE n = 2 -> IF o = "data" THEN 3 ELSE 5
      [] n = 3 -> IF o = "raised" THEN 5 ELSE 4
      [] n = 8 -> 9
      [] OTHER -> n + 1

\* steps 1-6 and 8 of run_demo, each in its own try/except Exception; step 8
\* follows step 7 when get_recent_pools returned data with a token address
DemoStep ==
    /\ flow = "dextools_v2_demo"
    /\ \/ pc = "ready" /\ demo_step \in 1..6
       \/ pc = "done" /\ demo_step = 7 /\ result = Returned("data")
    /\ \E o \in StepOutcomes :
          demo_step' = IF demo_step = 7 THEN 9 ELSE NextStep(demo_step, o)
    /\ UNCHANGED <<envVars, pc, clientVars, op, max_retries, loopVars, result,
                   inflight, sent, reqVars, callHist, calls, prevLog, sideVars,
                   closes>>

\* "if hasattr(demo, 'client') and hasattr(demo.client, 'close'): await
\* demo.client.close()": the name demo is unbound when DexToolsDemo() raised
Finally(constructed) ==
    IF constructed THEN [outcome |-> Returned("None"), closed |-> 1]
    ELSE [outcome |-> Raised("UnboundLocalError", "demo"), closed |-> 0]

\* the end of run_demo: the outer except clause when the constructor raised,
\* then the finally clause
DemoFinally ==
    /\ flow = "dextools_v2_demo"
    /\ \/ pc = "config_error" /\ demo_step = 1
       \/ pc = "done" /\ demo_step \in {7, 9}
    /\ ret' = Finally(api_key # "None").outcome
    /\ closes' = closes + Finally(api_key # "None").closed
    /\ demo_step' = 10
    /\ UNCHANGED <<envVars, pc, clientVars, op, max_retries, loopVars, result, inflight,
                   sent, reqVars, callHist, calls, prevLog, client_at_call, fresh,
                   events, answer, threads, fn, api_result, results,
                   limit, min_liquidity, tokens, tok_i, analysed, llm_calls,
                   files_written, steps>>

\* ----------------------------------------------- solana_dextools_api.py
\* the exponent counts the failed attempts from 0
ApiCallWaitFromZero(a) == Pow2(a - 1) * JitterRes

\* wait_time = 2 ** attempt, in ticks
ApiCallWait(a) == Pow2(a) * JitterRes

\* the loop makes no attempt beyond the retries
MaxAttemptsNoFirst(retries) == retries

\* max_attempts = retries + 1
MaxAttempts(retries) == retries + 1

\* main(): read the key, return if it is missing, else build SolanaDexToolsAPI
SolanaMain ==
    /\ flow = "solana_api"
    /\ pc = "start"
    /\ IF KeyMissing(env_key)
       THEN /\ pc' = "config_error"
            /\ result' = Returned("None")
            /\ UNCHANGED api_key
       ELSE /\ api_key' = "key"
            /\ pc' = "ready"
            /\ UNCHANGED result
    /\ UNCHANGED <<envVars, demoVars, sideVars, alternative_base_urls, headers, op, max_retries,
                   loopVars, inflight, sent, reqVars, callHist, calls, prevLog>>

\* _make_api_call(api_func, retries = r) up to the first loop iteration
CallMakeApiCall ==
    /\ flow = "solana_api"
    /\ pc = "ready"
    /\ calls = 0
    /\ op' = "make_api_call"
    /\ \E r \in 0..MaxRetries : max_retries' = r
    /\ attempt' = 1
    /\ taken' = 1
    /\ calls' = calls + 1
    /\ pc' = "send"
    /\ UNCHANGED <<envVars, demoVars, sideVars, clientVars, i_ep, i_url, last_exception, result,
                   inflight, sent, reqVars, endpoints, attempted, otherRaised,
                   callLog, prevLog>>

\* await api_func() goes out
ApiCallSend ==
    /\ flow = "solana_api"
    /\ pc = "send"
    /\ LogAttempt(SingleTarget)
    /\ pc' = "wait_response"
    /\ UNCHANGED <<envVars, demoVars, sideVars, clientVars, op, max_retries, loopVars, result,
                   endpoints, visited, taken, waits, okAt, otherRaised, calls,
                   prevLog>>

\* "return response", or the except clause, for the answer o
ApiCallHandle(o) ==
    /\ flow = "solana_api"
    /\ pc = "wait_response"
    /\ inflight' = inflight - 1
    /\ answer' = o
    /\ okAt' = IF o \in SuccessOutcomes THEN Len(attemptLog) ELSE okAt
    /\ IF o \in {"ok", "rate_limited"}
       THEN /\ result' = Returned(Payload(o))
            /\ pc' = "done"
            /\ UNCHANGED <<attempt, waits>>
       ELSE IF attempt < MaxAttempts(max_retries)
            THEN /\ waits' = Append(waits, ApiCallWait(attempt))
                 /\ attempt' = attempt + 1
                 /\ pc' = "send"
                 /\ UNCHANGED result
            ELSE /\ result' = Returned("None")
                 /\ pc' = "done"
                 /\ UNCHANGED <<attempt, waits>>
    /\ UNCHANGED <<envVars, demoVars, client_at_call, fresh, events, threads, dataVars,
                   clientVars, op, max_retries, i_ep, i_url,
                   last_exception, sent, attemptLog, visited, callHist, calls,
                   prevLog>>

ApiCallRespond == \E o \in LibOutcomes : ApiCallHandle(o)

\* ------------------------------------------------ solana_gpt_analysis.py
\* api_key = DEXTOOLS_API_KEY or "UFYgd1VSeq7ZdWbPQDEPQ6fuQ63QahNb2n4vntbi"
GainersKey(key_present) == IF key_present THEN "key" ELSE "example_key"

\* response.raise_for_status(); return response.json()
GainersClassify(o) ==
    CASE o \in {"ok", "rate_limited"} -> "return"
      [] o \in {"http_error", "conn_error", "bad_json_new"} -> "request_exception"
      [] o \in {"bad_json_old", "ok_empty"} -> "other_exception"

\* run_analysis -> get_solana_gainers up to requests.get(url, headers=headers)
GainersSend ==
    /\ flow = "solana_gpt_analysis"
    /\ pc = "start"
    /\ api_key' = GainersKey(env_key)
    /\ op' = "gainers"
    /\ calls' = calls + 1
    /\ taken' = 1
    /\ LogAttempt(SingleTarget)
    /\ pc' = "wait_response"
    /\ UNCHANGED <<envVars, demoVars, sideVars, alternative_base_urls, headers, max_retries, loopVars,
                   result, endpoints, visited, waits, okAt, otherRaised, prevLog>>

\* the rest of get_solana_gainers for the answer o
GainersHandle(o) ==
    /\ flow = "solana_gpt_analysis"
    /\ pc = "wait_response"
    /\ inflight' = inflight - 1
    /\ okAt' = IF o = "ok" THEN Len(attemptLog) ELSE okAt
    /\ result' = CASE GainersClassify(o) = "return" -> Returned(Payload(o))
                   [] GainersClassify(o) = "request_exception" ->
                        Raised("Exception", "Failed to fetch Solana gainers")
                   [] GainersClassify(o) = "other_exception" ->
                        Raised("ValueError", ExceptionOf(o))
    /\ otherRaised' = (GainersClassify(o) = "other_exception")
    /\ pc' = "done"
    /\ UNCHANGED <<envVars, demoVars, sideVars, clientVars, op, max_retries, loopVars, sent,
                   endpoints, attemptLog, visited, taken, attempted, waits,
                   callLog, calls, prevLog>>

GainersRespond == \E o \in NetOutcomes : GainersHandle(o)

\* ------------------------------------------------- the remote is silent
\* requests.get(url, headers=..., params=...) is called without a timeout
\* argument (dextools_demo.py, solana_gpt_analysis.py): an attempt the remote
\* never answers never returns
NeverAnswered ==
    /\ flow \in {"dextools_demo", "solana_gpt_analysis"}
    /\ pc = "wait_response"
    /\ pc' = "blocked"
    /\ UNCHANGED <<envVars, demoVars, sideVars, clientVars, op, max_retries, loopVars, result,
                   inflight, sent, reqVars, callHist, calls, prevLog>>

\* ------------------------------------------- a second call on one client
\* the caller invokes the same operation again after the first call ended
CallAgain ==
    /\ flow = "dextools_demo"
    /\ pc = "done"
    /\ calls >= 1
    /\ calls < MaxCalls
    /\ prevLog' = callLog
    /\ ResetHistory
    /\ i_ep' = 1
    /\ endpoints' = <<EndpointAt(1)>>
    /\ EnterMakeRequest
    /\ result' = NoResult
    /\ calls' = calls + 1
    /\ pc' = "for_url"
    /\ client_at_call' = IF trace THEN clientVars ELSE client_at_call
    /\ UNCHANGED <<envVars, demoVars, fresh, events, answer, threads, dataVars, clientVars, op, max_retries, attempt, inflight, sent>>

\* the network is down: every attempt ends in a transport or status error
RespondDown == \E o \in {"http_error", "conn_error"} : HandleResponse(o)

\* ------------------------------- two threads call one DexToolsAPI client
Threads == 1..NumThreads

\* the locals of one thread's _make_request, plus the headers it generated
\* last and the headers its last attempt was sent with
ThreadStart ==
    [pc |-> "for_url", i_url |-> 0, attempt |-> 0, generated |-> 0, sentWith |-> 0]

\* both threads call _make_request with the same endpoint
ThreadUrls == urls_to_try(base_url, alternative_base_urls, EndpointAt(1))

\* the caller starts the threads, each entering _make_request(endpoint)
StartThreads ==
    /\ flow = "dextools_demo"
    /\ pc = "ready"
    /\ calls = 0
    /\ op' = "two_threads"
    /\ max_retries' = DEFAULT_MAX_RETRIES
    /\ calls' = NumThreads
    /\ threads' = [t \in Threads |-> ThreadStart]
    /\ pc' = "threads"
    /\ UNCHANGED <<envVars, demoVars, clientVars, loopVars, result, inflight, sent, reqVars,
                   callHist, prevLog, client_at_call, fresh, events, answer, dataVars>>

\* thread t at "for url in urls_to_try": self.headers = self._generate_headers()
ThreadForUrl(t) ==
    /\ pc = "threads"
    /\ threads[t].pc = "for_url"
    /\ IF threads[t].i_url < Len(ThreadUrls)
       THEN \E ua \in UserAgents :
              /\ headers' = ua
              /\ threads' = [threads EXCEPT ![t] =
                     [@ EXCEPT !.i_url = @ + 1, !.attempt = 0, !.generated = ua,
                               !.pc = "send"]]
       ELSE /\ threads' = [threads EXCEPT ![t].pc = "raised"]
            /\ UNCHANGED headers
    /\ UNCHANGED <<envVars, demoVars, api_key, alternative_base_urls, op, max_retries,
                   loopVars, result, inflight, sent, reqVars, callHist, calls,
                   prevLog, client_at_call, fresh, events, answer, dataVars, pc>>

\* thread t at requests.get(url, headers=self.headers, params=params)
ThreadSend(t) ==
    /\ pc = "threads"
    /\ threads[t].pc = "send"
    /\ threads' = [threads EXCEPT ![t] =
           [@ EXCEPT !.sentWith = headers, !.pc = "wait_response"]]
    /\ sent' = TRUE
    /\ UNCHANGED <<envVars, demoVars, clientVars, op, max_retries, loopVars, result,
                   inflight, reqVars, callHist, calls, prevLog, client_at_call, fresh, events, answer, dataVars, pc>>

\* thread t: the rest of the try block and the except clause, for the answer o
ThreadHandle(t, o) ==
    /\ pc = "threads"
    /\ threads[t].pc = "wait_response"
    /\ threads' = [threads EXCEPT ![t] =
           CASE Classify(o) = "return" -> [@ EXCEPT !.pc = "returned"]
             [] Classify(o) = "request_exception" ->
                  IF ShouldRetry(@.attempt, max_retries)
                  THEN [@ EXCEPT !.attempt = @ + 1, !.pc = "send"]
                  ELSE [@ EXCEPT !.pc = "for_url"]
             [] Classify(o) = "other_exception" -> [@ EXCEPT !.pc = "raised"]]
    /\ UNCHANGED <<envVars, demoVars, clientVars, op, max_retries, loopVars, result,
                   inflight, sent, reqVars, callHist, calls, prevLog, client_at_call,
                   fresh, events, answer, dataVars, pc>>

ThreadsForUrl == \E t \in Threads : ThreadForUrl(t)
ThreadsSend == \E t \in Threads : ThreadSend(t)
ThreadsRespond == \E t \in Threads : \E o \in NetOutcomes : ThreadHandle(t, o)

\* -------------------- solana_dextools_api.py: the data methods (pure part)
\* every variable of the request flows, which the data methods leave alone
requestVars == <<flow, env_key, trace, clientVars, op, max_retries, loopVars,
                 result, inflight, sent, reqVars, callHist, calls, prevLog,
                 client_at_call, fresh, events, answer, threads, demoVars>>

\* pair_data.get("liquidity") is None
NoneLiq == -1

\* a raw pair as far as the methods look at it: whether both mainToken and
\* sideToken are present and non-empty, and its liquidity
RawPairs ==
    {[has_tokens |-> FALSE, liquidity |-> NoneLiq]}
        \cup {[has_tokens |-> TRUE, liquidity |-> l] : l \in NoneLiq..MaxLiq}

\* what the awaited _make_api_call(api_call, retries) can hand back
\*   none           None: every attempt raised
\*   empty          an empty dict
\*   no_data        a dict without the key "data"
\*   data_not_dict  a dict whose "data" is not a dict (.get raises AttributeError)
\*   data           a dict whose "data" is a dict; results is data.get("results", [])
ApiResults == {"none", "empty", "no_data", "data_not_dict", "data"}

Min(a, b) == IF a <= b THEN a ELSE b

\* _extract_pair_info(pair_data) for the pair at position pos of the results:
\* None when a token is missing, else the record built from the pair
ExtractPairInfo(pair_data, pos) ==
    IF ~pair_data.has_tokens
    THEN [found |-> FALSE, pos |-> pos, liquidity |-> NoneLiq]
    ELSE [found |-> TRUE, pos |-> pos, liquidity |-> pair_data.liquidity]

\* "for pair_data in rs[i-1:n]: pair_info = ...; if pair_info: pairs.append(pair_info)"
RECURSIVE PairsFrom(_, _, _)
PairsFrom(rs, i, n) ==
    IF i > n THEN <<>>
    ELSE LET pair_info == ExtractPairInfo(rs[i], i)
         IN  (IF pair_info.found THEN <<pair_info>> ELSE <<>>) \o PairsFrom(rs, i + 1, n)

\* the whole list is processed, limit is ignored
RankingPairsUnlimited(shape, rs, lim) ==
    IF shape = "data" THEN PairsFrom(rs, 1, Len(rs)) ELSE <<>>

\* get_solana_hot_pairs / get_solana_gainers / get_solana_losers after the
\* fetch: the first limit results (rs[:limit], limit >= 0) go through
\* _extract_pair_info; every other shape ends in "return []"
RankingPairs(shape, rs, lim) ==
    IF shape = "data" THEN PairsFrom(rs, 1, Min(lim, Len(rs))) ELSE <<>>

\* "token_info.get('liquidity', 0) < min_liquidity" raises TypeError for None
\* (caught per token), else decides whether the token is skipped
LiquidityTooLow(pair_info, minl) ==
    pair_info.liquidity = NoneLiq \/ pair_info.liquidity < minl

\* the loop of get_recent_solana_tokens from position i with count tokens kept
RECURSIVE RecentFrom(_, _, _, _, _)
RecentFrom(rs, i, count, lim, minl) ==
    IF i > Len(rs) \/ count >= lim THEN <<>>
    ELSE LET token_info == ExtractPairInfo(rs[i], i)
         IN  IF token_info.found /\ ~LiquidityTooLow(token_info, minl)
             THEN <<token_info>> \o RecentFrom(rs, i + 1, count + 1, lim, minl)
             ELSE RecentFrom(rs, i + 1, count, lim, minl)

\* the liquidity filter is left out
RecentTokensUnfiltered(shape, rs, lim, minl) ==
    IF shape = "data" THEN RecentFrom(rs, 1, 0, lim, NoneLiq) ELSE <<>>

\* get_recent_solana_tokens after the fetch
RecentTokens(shape, rs, lim, minl) ==
    IF shape = "data" THEN RecentFrom(rs, 1, 0, lim, minl) ELSE <<>>

RankingFns == {"get_solana_hot_pairs", "get_solana_gainers", "get_solana_losers"}
KwargFns == {"get_solana_new_tokens", "get_solana_token_info"}
AnalysisFns == {"analyze_recent_tokens", "analyze_hot_pairs"}
DataFns == RankingFns \cup KwargFns \cup AnalysisFns
               \cup {"get_recent_solana_tokens", "run_analysis"}

\* get_solana_hot_pairs / get_solana_gainers / get_solana_losers
CallRanking ==
    /\ fn \in RankingFns
    /\ pc = "start"
    /\ \E shape \in ApiResults :
          /\ api_result' = shape
          /\ ret' = Returned(RankingPairs(shape, results, limit))
    /\ pc' = "done"
    /\ UNCHANGED <<requestVars, fn, results, limit, min_liquidity, tokens, tok_i,
                   analysed, llm_calls, files_written, steps>>

\* get_recent_solana_tokens
CallRecentTokens ==
    /\ fn = "get_recent_solana_tokens"
    /\ pc = "start"
    /\ \E shape \in ApiResults :
          /\ api_result' = shape
          /\ ret' = Returned(RecentTokens(shape, results, limit, min_liquidity))
    /\ pc' = "done"
    /\ UNCHANGED <<requestVars, fn, results, limit, min_liquidity, tokens, tok_i,
                   analysed, llm_calls, files_written, steps>>

\* self._make_api_call(self.client.get_pools, chain=..., ...): the signature
\* _make_api_call(self, api_func, retries=3) takes none of these keywords
KwargCall ==
    Raised("TypeError", "_make_api_call() got an unexpected keyword argument")

\* get_solana_new_tokens / get_solana_token_info: the call of _make_api_call
\* is outside any try block
CallWithKwargs ==
    /\ fn \in KwargFns
    /\ pc = "start"
    /\ ret' = KwargCall
    /\ pc' = "done"
    /\ UNCHANGED <<requestVars, fn, api_result, results, limit, min_liquidity,
                   tokens, tok_i, analysed, llm_calls, files_written, steps>>

\* --------------- solana_token_analyzer.py, solana_gpt_analysis.py: flows
\* how the body of the per-token try block ends
\*   ok              converted, analysed, appended, saved
\*   convert_raises  _convert_to_token_data raised
\*   analyze_raises  analyze_token raised in the prompt builder, before the LLM call
\*   save_raises     analysed and appended, _save_analysis_to_file raised
TokenOutcomes == {"ok", "convert_raises", "analyze_raises", "save_raises"}

\* the result is appended only once it was saved
ResultKeptIfSaved(o) == o = "ok"

\* results.append(result) stands between analyze_token and _save_analysis_to_file
ResultKept(o) == o \in {"ok", "save_raises"}

\* the statements of the try block that start for outcome o, then the pause
\* or the except clause
StepsOf(o) ==
    CASE o = "ok" -> <<"convert", "analyse", "save", "pause">>
      [] o = "convert_raises" -> <<"convert", "raised">>
      [] o = "analyze_raises" -> <<"convert", "analyse", "raised">>
      [] o = "save_raises" -> <<"convert", "analyse", "save", "raised">>

\* analyze_recent_tokens / analyze_hot_pairs up to "if not recent_tokens: return []"
AnalyzeFetch ==
    /\ fn \in AnalysisFns
    /\ pc = "start"
    /\ \E shape \in ApiResults :
          /\ api_result' = shape
          /\ tokens' = IF fn = "analyze_recent_tokens"
                        THEN RecentTokens(shape, results, limit, min_liquidity)
                        ELSE RankingPairs(shape, results, limit)
    /\ IF tokens' = <<>>
       THEN ret' = Returned(<<>>) /\ pc' = "done"
       ELSE pc' = "analyze" /\ UNCHANGED ret
    /\ UNCHANGED <<requestVars, fn, results, limit, min_liquidity, tok_i, analysed,
                   llm_calls, files_written, steps>>

\* one iteration of "for token in recent_tokens" with its try/except, or
\* "return results" after the last one
AnalyzeToken ==
    /\ fn \in AnalysisFns
    /\ pc = "analyze"
    /\ IF tok_i < Len(tokens)
       THEN /\ \E o \in TokenOutcomes :
                  /\ llm_calls' = IF o \in {"ok", "save_raises"}
                                    THEN llm_calls + 1 ELSE llm_calls
                  /\ analysed' = IF ResultKept(o)
                                   THEN Append(analysed, tokens[tok_i + 1].pos)
                                   ELSE analysed
                  /\ steps' = steps \o [i \in 1..Len(StepsOf(o)) |->
                                            <<tok_i + 1, StepsOf(o)[i]>>]
                  /\ files_written' = IF o = "ok" THEN files_written + 1
                                        ELSE files_written
            /\ tok_i' = tok_i + 1
            /\ UNCHANGED <<pc, ret>>
       ELSE /\ ret' = Returned(analysed)
            /\ pc' = "done"
            /\ UNCHANGED <<tok_i, analysed, llm_calls, files_written, steps>>
    /\ UNCHANGED <<requestVars, fn, api_result, results, limit, min_liquidity,
                   tokens>>

\* what get_solana_gainers() of solana_gpt_analysis.py hands to run_analysis
GainersResults == {"raised", "data"}

\* the exception leaves run_analysis
RunAnalysisPropagates(e) == e

\* "except Exception as e" of run_analysis: logged and printed, nothing raised
RunAnalysisCaught(e) == Returned("None")

\* run_analysis: fetch, format, mock_analyze (use_mock = True), save_to_markdown
RunAnalysis ==
    /\ fn = "run_analysis"
    /\ pc = "start"
    /\ \E f \in GainersResults :
          /\ api_result' = f
          /\ IF f = "raised"
             THEN /\ ret' = RunAnalysisCaught(
                              Raised("Exception", "Failed to fetch Solana gainers"))
                  /\ UNCHANGED files_written
             ELSE /\ \E saved \in BOOLEAN :
                        files_written' = IF saved THEN 1 ELSE 0
                  /\ ret' = Returned("None")
    /\ pc' = "done"
    /\ UNCHANGED <<requestVars, fn, results, limit, min_liquidity, tokens, tok_i,
                   analysed, llm_calls, steps>>

\* ------------------------------------------------------------------ spec
InitProgram ==
    /\ pc = "start"
    /\ api_key = "None"
    /\ alternative_base_urls = <<>>
    /\ headers = 0
    /\ op = "none"
    /\ max_retries = 0
    /\ i_ep = 0
    /\ i_url = 0
    /\ attempt = 0
    /\ last_exception = "None"
    /\ result = NoResult
    /\ inflight = 0
    /\ sent = FALSE
    /\ endpoints = <<>>
    /\ attemptLog = <<>>
    /\ visited = <<>>
    /\ taken = 0
    /\ attempted = 0
    /\ waits = <<>>
    /\ okAt = 0
    /\ otherRaised = FALSE
    /\ calls = 0
    /\ callLog = <<>>
    /\ prevLog = <<>>
    /\ client_at_call = <<>>
    /\ fresh = FALSE
    /\ events = <<>>
    /\ demo_step = 1
    /\ closes = 0
    /\ answer = "none"
    /\ threads = <<>>

\* no data method is running
InitDataIdle ==
    /\ fn = "none"
    /\ api_result = "none"
    /\ results = <<>>
    /\ limit = 0
    /\ min_liquidity = 0
    /\ ret = NoResult
    /\ tokens = <<>>
    /\ tok_i = 0
    /\ analysed = <<>>
    /\ llm_calls = 0
    /\ files_written = 0
    /\ steps = <<>>

InitState == InitProgram /\ InitDataIdle

Init ==
    /\ flow \in Flows
    /\ env_key \in BOOLEAN
    /\ trace = FALSE
    /\ InitState

Next ==
    \/ Construct
    \/ CallHotPairs
    \/ CallMakeRequest
    \/ ForUrl
    \/ SendRequest
    \/ Respond
    \/ ForEndpoint
    \/ ConstructDemo
    \/ CallRecentPools
    \/ PoolsSend
    \/ PoolsRespond
    \/ DemoStep
    \/ DemoFinally
    \/ SolanaMain
    \/ CallMakeApiCall
    \/ ApiCallSend
    \/ ApiCallRespond
    \/ GainersSend
    \/ GainersRespond
    \/ NeverAnswered

Spec == Init /\ [][Next]_vars

\* every step the scripts or the remote can take is eventually taken; an
\* attempt the remote never answers leaves none to take
SpecLive == Init /\ [][Next]_vars /\ WF_vars(Next)

\* two or more calls in succession on one client while the network is down
InitRepeat ==
    /\ flow = "dextools_demo"
    /\ env_key = TRUE
    /\ trace = TRUE
    /\ InitState

NextRepeat ==
    \/ Construct
    \/ CallHotPairs
    \/ CallMakeRequest
    \/ ForUrl
    \/ SendRequest
    \/ RespondDown
    \/ ForEndpoint
    \/ CallAgain

SpecRepeat == InitRepeat /\ [][NextRepeat]_vars

\* NumThreads threads share one client, each running one _make_request
InitThreads ==
    /\ flow = "dextools_demo"
    /\ env_key = TRUE
    /\ trace = FALSE
    /\ InitState

NextThreads ==
    \/ Construct
    \/ StartThreads
    \/ ThreadsForUrl
    \/ ThreadsSend
    \/ ThreadsRespond

SpecThreads == InitThreads /\ [][NextThreads]_vars

\* sequences over S of length at most n
SeqsUpTo(S, n) == UNION {[1..k -> S] : k \in 0..n}

\* one data method or analysis flow runs on inputs drawn from the bounds
InitData ==
    /\ flow = "solana_data"
    /\ env_key = TRUE
    /\ trace = FALSE
    /\ InitProgram
    /\ fn \in DataFns
    /\ api_result = "none"
    /\ results \in SeqsUpTo(RawPairs, MaxResults)
    /\ limit \in 0..MaxLimit
    /\ min_liquidity \in 1..MaxLiq
    /\ ret = NoResult
    /\ tokens = <<>>
    /\ tok_i = 0
    /\ analysed = <<>>
    /\ llm_calls = 0
    /\ files_written = 0
    /\ steps = <<>>

NextData ==
    \/ CallRanking
    \/ CallRecentTokens
    \/ CallWithKwargs
    \/ AnalyzeFetch
    \/ AnalyzeToken
    \/ RunAnalysis

SpecData == InitData /\ [][NextData]_vars

\* ---------------------------------------------------------------- claims
NumBases == Len(alternative_base_urls) + 1

\* every URL the operation can form: base x chain id x template
AllCandidates ==
    {<<b, t, c>> : b \in 0..Len(alternative_base_urls),
                   t \in endpoint_templates, c \in chain_ids}

NumCandidates == NumBases * NumChainIds * NumTemplates

\* every endpoint the two loops can form: template x chain id
AllEndpoints == {<<t, c>> : t \in endpoint_templates, c \in chain_ids}

\* the URLs _make_request can form for endpoint e
UrlsOf(e) == {Url(b, e) : b \in 0..Len(alternative_base_urls)}

EndpointOf(u) == <<u[2], u[3]>>

\* position (from 0) of an endpoint when the chain id varies slowest
EndpointRank(e) == (e[2] - 1) * NumTemplates + (e[1] - 1)

Distinct(s) == Cardinality(Range(s)) = Len(s)

\* candidate v was taken as current candidate earlier in this call
TakenBefore(v) ==
    /\ EndpointOf(v) \in Range(endpoints)
    /\ EndpointOf(v) = endpoints[Len(endpoints)] => v \in Range(visited)

\* network attempts made against URL u in the current _make_request
AttemptsOn(u) == Cardinality({i \in 1..Len(attemptLog) : attemptLog[i] = u})

\* position (from 0) of a URL when the chain id varies slowest, the template
\* next and the base fastest
ChainTemplateBaseRank(u) ==
    ((u[3] - 1) * NumTemplates + (u[2] - 1)) * NumBases + u[1]

\* position (from 0) of a URL when the base varies slowest, the chain id next
\* and the template fastest
BaseChainTemplateRank(u) ==
    (u[1] * NumChainIds + (u[3] - 1)) * NumTemplates + (u[2] - 1)

FallbackOp == op \in {"hot_pairs", "make_request"}

TerminalFailure == pc = "done" /\ result.kind = "raise"

\* C1: the endpoints handed to _make_request in one get_solana_hot_pairs call
\* are pairwise distinct, the URLs one _make_request takes as candidate are
\* pairwise distinct URLs of its endpoint, and every candidate taken is
\* attempted; when the call ends in its terminal failure after network
\* failures only (transport errors and error statuses), all M*K endpoints were
\* handed out, and each of the N*M*K candidate URLs became the current
\* candidate exactly once and was attempted at least once.
C1_AllCandidatesTried ==
    op = "hot_pairs" =>
        /\ Distinct(endpoints)
        /\ Distinct(visited)
        /\ Range(visited) \subseteq UrlsOf(endpoints[Len(endpoints)])
        /\ Range(attemptLog) \subseteq Range(visited)
        /\ pc # "send" => Range(visited) \subseteq Range(attemptLog)
        /\ (result.kind = "raise" /\ ~otherRaised) =>
              /\ pc = "done"
              /\ Range(endpoints) = AllEndpoints
              /\ Cardinality(AllCandidates) = NumCandidates
              /\ taken = NumCandidates
              /\ attempted = NumCandidates

C1_Witness ==
    /\ op = "hot_pairs"
    /\ TerminalFailure
    /\ ~otherRaised
    /\ NumBases = MaxAlt + 1
    /\ attempted = NumCandidates

\* C2: once an attempt of a call was answered with success, the call is over
\* with that payload as its result, and the successful attempt is the last
\* network attempt of the call.
C2_StopAfterSuccess ==
    okAt > 0 =>
        /\ pc = "done"
        /\ result.kind = "return"
        /\ result.value \in {"data", "status_ok"}
        /\ Len(attemptLog) = okAt
        /\ inflight = 0

C2_Witness ==
    /\ op = "hot_pairs"
    /\ okAt > 1
    /\ taken > 1
    /\ taken < NumCandidates

\* C3 as stated: attempts follow the order in which the base endpoint varies
\* slowest, the chain id next and the template fastest: a URL is attempted
\* only after every candidate before it in that order was taken.
C3_BaseSlowestOrder ==
    op = "hot_pairs" =>
        \A k \in 1..Len(attemptLog) : \A v \in AllCandidates :
            BaseChainTemplateRank(v) < BaseChainTemplateRank(attemptLog[k])
                => TakenBefore(v)

\* C3 amended: attempts follow the order in which the chain id varies
\* slowest, the template next and the base endpoint fastest: the endpoints
\* are handed out in chain-slowest order, within one endpoint the bases are
\* taken in list order, and a URL is attempted only after every candidate
\* before it in that order was taken.
C3_ChainSlowestOrder ==
    op = "hot_pairs" =>
        /\ \A i \in 1..Len(endpoints) : EndpointRank(endpoints[i]) = i - 1
        /\ \A i \in 1..Len(visited) :
              ChainTemplateBaseRank(visited[i]) = (Len(endpoints) - 1) * NumBases + i - 1
        /\ \A i, j \in 1..Len(attemptLog) :
              i < j => ChainTemplateBaseRank(attemptLog[i])
                         <= ChainTemplateBaseRank(attemptLog[j])
        /\ \A k \in 1..Len(attemptLog) : \A v \in AllCandidates :
              ChainTemplateBaseRank(v) < ChainTemplateBaseRank(attemptLog[k])
                  => TakenBefore(v)

C3_Witness ==
    /\ op = "hot_pairs"
    /\ ~otherRaised
    /\ NumBases > 1
    /\ okAt > 0
    /\ taken = NumCandidates

\* a candidate was given up after its attempts failed
GaveUp ==
    \/ flow = "dextools_demo" /\ pc = "for_url" /\ i_url > 0
    \/ flow = "dextools_v2_demo" /\ pc = "done" /\ result.kind = "raise"
    \/ flow = "solana_api" /\ pc = "done" /\ result = Returned("None")

AttemptsOnCurrent ==
    IF flow = "dextools_demo" THEN AttemptsOn(CurrentUrls[i_url])
    ELSE Len(attemptLog)

NonDecreasing(s) == \A i, j \in 1..Len(s) : i < j => s[i] <= s[j]

\* C4 as stated: with max retries R >= 1 a candidate that failed R times gets
\* an (R+1)-th attempt, so it is given up only after more than R attempts,
\* with R backoff waits of non-decreasing length taken by then.
C4_RetryAfterRFailures ==
    (GaveUp /\ max_retries >= 1) =>
        /\ AttemptsOnCurrent = max_retries + 1
        /\ Len(waits) = max_retries
        /\ NonDecreasing(waits)

\* C5 as stated: one candidate and max retries 0 give exactly one network
\* attempt and no backoff wait.
C5_ZeroRetriesOneAttempt ==
    (/\ pc = "done"
     /\ max_retries = 0
     /\ \/ op = "make_request" /\ NumBases = 1
        \/ op = "make_api_call") =>
        /\ Len(attemptLog) = 1
        /\ waits = <<>>

\* C6 as stated, for get_recent_pools: a body carrying the rate-limit marker
\* is never handed to the caller as the result.
C6_RateLimitNeverReturned ==
    (op = "recent_pools" /\ result.kind = "return") =>
        result.value # "too_many_requests"

IsPrefix(s, t) == Len(s) <= Len(t) /\ \A i \in 1..Len(s) : s[i] = t[i]

\* C7: while the network is down, a repeated call attempts the same URLs in
\* the same order as the call before it, and as many of them.
C7_SameEnumeration ==
    calls >= 2 =>
        /\ IsPrefix(callLog, prevLog)
        /\ pc = "done" => callLog = prevLog

C7_Witness ==
    /\ calls = 2
    /\ pc = "done"
    /\ op = "hot_pairs"
    /\ NumBases > 1
    /\ Len(prevLog) = NumCandidates * DEFAULT_MAX_RETRIES
    /\ callLog = prevLog

\* per-candidate records attached to a result, if any
Carried(r) == IF "records" \in DOMAIN r THEN r.records ELSE <<>>

C9_NoRequestWithoutKey ==
    ~env_key =>
        /\ ~sent
        /\ pc \in {"start", "config_error"}

\* C9 amended: in the DexToolsAPI, DexToolsDemo and solana_dextools_api main
\* flows a missing key ends the run in a configuration error before any
\* call or request; get_solana_gainers of solana_gpt_analysis sends its
\* request with the built-in example key instead.
C9_ConfigErrorBeforeNetwork ==
    ~env_key =>
        /\ flow # "solana_gpt_analysis" =>
              /\ ~sent
              /\ calls = 0
              /\ pc \in {"start", "config_error"}
        /\ (flow = "solana_gpt_analysis" /\ sent) => api_key = "example_key"

C9_Witness ==
    /\ ~env_key
    /\ flow = "dextools_demo"
    /\ pc = "config_error"
    /\ result = Raised("ValueError", "API key not found")

\* C10 as stated: whatever an attempt raises, no untried candidate is
\* skipped: every base of every endpoint before the current one was taken,
\* and a call ends in failure only after all candidates were taken.
C10_NoCandidateSkipped ==
    /\ op = "hot_pairs" =>
          taken = (Len(endpoints) - 1) * NumBases + Len(visited)
    /\ (FallbackOp /\ TerminalFailure /\ max_retries >= 1) =>
          taken = IF op = "hot_pairs" THEN NumCandidates ELSE NumBases

\* the running call has issued a network attempt that has not completed
AwaitingAnswer == pc \in {"wait_response", "blocked"}

\* C11: a logical call has at most one network attempt outstanding, and it has
\* one exactly while it waits for the answer to the attempt it issued last;
\* every backoff wait taken so far was taken with no attempt outstanding
\* before the attempt that followed it.
C11_OneOutstanding ==
    /\ inflight \in {0, 1}
    /\ inflight = 1 <=> AwaitingAnswer
    /\ pc = "send" => inflight = 0
    /\ (flow = "dextools_demo" /\ Len(visited) > 0) =>
          AttemptsOn(visited[Len(visited)]) \in {Len(waits), Len(waits) + 1}

C11_Witness ==
    /\ flow = "dextools_demo"
    /\ op = "hot_pairs"
    /\ inflight = 1
    /\ pc = "wait_response"
    /\ Len(waits) = 1
    /\ AttemptsOn(visited[Len(visited)]) = 2
    /\ taken > 1

RunOver == pc \in {"done", "config_error"}

\* C13 as stated: every logical call eventually returns, even if the remote
\* never answers some attempt.
C13_EveryCallReturns == <>RunOver

\* C14 as stated: with two calls running concurrently on one client, the
\* headers an attempt is sent with are the ones its own call generated.
C14_HeadersOwn ==
    \A t \in DOMAIN threads :
        threads[t].pc = "wait_response" =>
            threads[t].sentWith = threads[t].generated

\* C15 as stated: when a logical call on a DexToolsAPI client has returned or
\* raised, api_key, alternative_base_urls and headers hold the values they
\* held when the call started (base_url is a constant of the model).
C15_ClientUnchanged ==
    (trace /\ FallbackOp /\ pc = "done") => clientVars = client_at_call

\* C16: analyze_recent_tokens, analyze_hot_pairs and run_analysis never hand an
\* exception to their caller; when the fetch yields no data (the analysis
\* flows) or raises (run_analysis) the flow is over at once, with an empty
\* result, no call of the LLM and no file written.
C16_FetchFailureDegrades ==
    /\ fn \in AnalysisFns \cup {"run_analysis"} => ret.kind # "raise"
    /\ (fn \in AnalysisFns /\ pc # "start" /\ tokens = <<>>) =>
          /\ pc = "done"
          /\ ret = Returned(<<>>)
          /\ llm_calls = 0
          /\ files_written = 0
    /\ (fn = "run_analysis" /\ api_result = "raised") =>
          /\ pc = "done"
          /\ ret.kind = "return"
          /\ llm_calls = 0
          /\ files_written = 0

C16_Witness ==
    /\ fn = "analyze_recent_tokens"
    /\ pc = "done"
    /\ api_result = "none"
    /\ Len(results) = MaxResults
    /\ limit > 0
    /\ ret = Returned(<<>>)

\* C17: get_solana_hot_pairs, get_solana_gainers and get_solana_losers return
\* a list of at most limit entries, each the _extract_pair_info record of one
\* of the first limit results, in API order; the list is empty when the fetch
\* gave None or a response without "data".
C17_RankingLists ==
    (fn \in RankingFns /\ pc = "done") =>
        /\ ret.kind = "return"
        /\ Len(ret.value) <= limit
        /\ \A k \in 1..Len(ret.value) :
              /\ ret.value[k].pos \in 1..Min(limit, Len(results))
              /\ ret.value[k].found
              /\ ret.value[k] = ExtractPairInfo(results[ret.value[k].pos], ret.value[k].pos)
        /\ \A j, k \in 1..Len(ret.value) : j < k => ret.value[j].pos < ret.value[k].pos
        /\ api_result \in {"none", "no_data"} => ret.value = <<>>

C17_Witness ==
    /\ fn = "get_solana_gainers"
    /\ pc = "done"
    /\ api_result = "data"
    /\ limit = MaxLimit
    /\ Len(results) > limit
    /\ Len(ret.value) = 1
    /\ ret.value[1].pos = 2

C19_FailureAsValue ==
    (fn \in KwargFns /\ pc = "done") => ret.kind = "return"

\* C20 as stated: every network attempt of _make_request, a retry as well as
\* the first attempt on a candidate, goes out with headers generated since
\* the attempt before it.
C20_HeadersFreshEveryAttempt ==
    (flow = "dextools_demo" /\ pc = "send") => fresh

\* the positions of the network attempts in the event history
GetsIn(ev) == {i \in 1..Len(ev) : ev[i] = "get"}

\* C21: every network attempt of _make_request, first or retry, comes right
\* after a pre-request delay of its own, and on a retry that delay comes right
\* after the backoff wait that followed the previous attempt.
C21_DelayBeforeEveryAttempt ==
    (flow = "dextools_demo" /\ FallbackOp /\ i_url >= 1) =>
        /\ Cardinality(GetsIn(events)) = AttemptsOnCurrent
        /\ \A i \in GetsIn(events) :
              /\ i > 1 /\ events[i - 1] = "pre_delay"
              /\ i > 2 => /\ events[i - 2] = "backoff"
                          /\ i > 3 /\ events[i - 3] = "get"
        /\ \A i \in 1..Len(events) :
              events[i] = "pre_delay" => (i < Len(events) /\ events[i + 1] = "get")

\* a retry has gone out: delay, attempt, backoff wait, delay, attempt
C21_Witness ==
    /\ flow = "dextools_demo"
    /\ op = "make_request"
    /\ pc = "wait_response"
    /\ events = <<"pre_delay", "get", "backoff", "pre_delay", "get">>
    /\ Len(waits) = 1

\* C22 as stated: a success status with an undecodable body ends the work on
\* its candidate: no retry goes out after it, and the next candidate in
\* enumeration order is taken, none being skipped and the call not ending.
C22_UndecodableIsTerminal ==
    (flow = "dextools_demo" /\ FallbackOp) =>
        /\ (pc = "send" /\ attempt > 0) => last_exception # "JSONDecodeError"
        /\ otherRaised =>
              /\ taken = (Len(endpoints) - 1) * NumBases + Len(visited)
              /\ ~(pc = "done" /\ result.kind = "raise" /\ result.exc = "ValueError")

\* C23: an attempt answered with a success status and an empty body ends
\* _make_request at once: the payload {"status": "ok"} is returned, no decode
\* error is raised, no retry goes out after it and no further candidate is
\* taken.
C23_EmptyBodySucceeds ==
    (flow = "dextools_demo" /\ FallbackOp /\ answer = "ok_empty") =>
        /\ pc = "done"
        /\ result = Returned("status_ok")
        /\ inflight = 0
        /\ okAt = Len(attemptLog)
        /\ events[Len(events)] = "get"
        /\ visited[Len(visited)] = attemptLog[Len(attemptLog)]
        /\ i_url = Len(visited)

\* the empty answer came on a retry, with a further candidate left untried
C23_Witness ==
    /\ flow = "dextools_demo"
    /\ op = "make_request"
    /\ answer = "ok_empty"
    /\ result = Returned("status_ok")
    /\ Len(attemptLog) = 2
    /\ Len(alternative_base_urls) = 1
    /\ i_url = 1

\* the run is inside, or has finished, a call of _make_api_call
InApiCall == flow = "solana_api" /\ op = "make_api_call"

\* the outcomes for which "await api_func()" raises
ApiCallRaises == {"http_error", "conn_error"}

\* C24: _make_api_call(api_func, retries = R) calls api_func at most R + 1
\* times, hands back the result of the first call that did not raise without
\* calling again, and returns None, never raising, exactly when all R + 1
\* calls raised.
C24_ApiCallAttempts ==
    InApiCall =>
        /\ Len(attemptLog) <= max_retries + 1
        /\ Len(attemptLog) \in {Len(waits), Len(waits) + 1}
        /\ pc = "done" =>
              /\ result.kind = "return"
              /\ IF Len(waits) = max_retries /\ answer \in ApiCallRaises
                 THEN /\ result.value = "None"
                      /\ Len(attemptLog) = max_retries + 1
                 ELSE /\ answer \notin ApiCallRaises
                      /\ result.value = Payload(answer)
                      /\ Len(attemptLog) = Len(waits) + 1
                      /\ Len(attemptLog) <= max_retries + 1

\* retries = 2 and all three calls of api_func raised
C24_Witness ==
    /\ InApiCall
    /\ pc = "done"
    /\ max_retries = 2
    /\ Len(attemptLog) = 3
    /\ result = Returned("None")

\* C26: in _make_api_call the k-th wait, taken after the k-th failed attempt,
\* is exactly 2^k seconds; a fully failing call with retries = R has taken
\* exactly the R waits 2, 4, ..., 2^R, strictly increasing, and none after the
\* final failed attempt.
C26_ApiCallWaits ==
    InApiCall =>
        /\ \A k \in 1..Len(waits) : waits[k] = Pow2(k) * JitterRes
        /\ \A i, j \in 1..Len(waits) : i < j => waits[i] < waits[j]
        /\ Len(waits) <= max_retries
        /\ pc \in {"send", "wait_response"} => Len(waits) = attempt - 1
        /\ (pc = "done" /\ result = Returned("None")) =>
              /\ Len(waits) = max_retries
              /\ Len(attemptLog) = Len(waits) + 1

\* retries = 2, all calls raised: the waits were 2 s and 4 s
C26_Witness ==
    /\ InApiCall
    /\ pc = "done"
    /\ result = Returned("None")
    /\ max_retries = 2
    /\ waits = <<2 * JitterRes, 4 * JitterRes>>

\* C25 as stated: when all max_retries attempts of get_recent_pools failed, by
\* an exception or by a "Too Many Requests" body, the call ends in an explicit
\* failure: the exception is raised or the error dict "Maximum retries
\* reached" is returned.
C25_ExhaustionIsExplicitFailure ==
    (flow = "dextools_v2_demo" /\ op = "recent_pools" /\ pc = "done"
        /\ Len(attemptLog) = POOLS_MAX_RETRIES /\ okAt = 0) =>
        \/ result.kind = "raise"
        \/ result = Returned("maximum_retries_reached")

AnalysisReturned(k) ==
    \E i \in 1..Len(steps) :
        /\ steps[i] = <<k, "analyse">>
        /\ (i = Len(steps) \/ steps[i + 1] # <<k, "raised">>)

\* the positions of the first n tokens whose analysis returned, in list order
RECURSIVE ReturnedUpTo(_)
ReturnedUpTo(n) ==
    IF n = 0 THEN <<>>
    ELSE IF AnalysisReturned(n) THEN Append(ReturnedUpTo(n - 1), tokens[n].pos)
         ELSE ReturnedUpTo(n - 1)

\* the steps taken on the k-th token, in order
StepsOn(k) ==
    LET idx == {i \in 1..Len(steps) : steps[i][1] = k}
        f == [i \in 1..Len(steps) |-> IF i \in idx THEN steps[i][2] ELSE "-"]
        IsStep(x) == x # "-"
    IN SelectSeq(f, IsStep)

\* C28: in analyze_recent_tokens and analyze_hot_pairs an exception raised
\* while converting, analysing or saving a token does not end the batch: the
\* loop goes on to every later token, the tokens are taken one after another
\* in list order, each with its steps in the order convert, analyse, save,
\* pause and none of them before the previous token is finished, and the list
\* returned holds exactly the results of the tokens whose analysis returned,
\* in list order.
C28_BatchSurvivesTokenFailure ==
    (fn \in AnalysisFns /\ pc \in {"analyze", "done"} /\ tokens # <<>>) =>
        /\ \A i, j \in 1..Len(steps) : i < j => steps[i][1] <= steps[j][1]
        /\ {steps[i][1] : i \in 1..Len(steps)} = 1..tok_i
        /\ \A k \in 1..tok_i :
              \/ StepsOn(k) = <<"convert", "analyse", "save", "pause">>
              \/ /\ StepsOn(k)[Len(StepsOn(k))] = "raised"
                 /\ IsPrefix(SubSeq(StepsOn(k), 1, Len(StepsOn(k)) - 1),
                             <<"convert", "analyse", "save">>)
        /\ analysed = ReturnedUpTo(tok_i)
        /\ pc = "done" =>
              /\ tok_i = Len(tokens)
              /\ ret = Returned(ReturnedUpTo(Len(tokens)))

\* two tokens: the save of the first raises, the second goes through, and
\* both results are returned
C28_Witness ==
    /\ fn \in AnalysisFns
    /\ pc = "done"
    /\ Len(tokens) = 2
    /\ StepsOn(1) = <<"convert", "analyse", "save", "raised">>
    /\ StepsOn(2) = <<"convert", "analyse", "save", "pause">>
    /\ ret = Returned(<<tokens[1].pos, tokens[2].pos>>)
    /\ files_written = 1

\* C29 as stated: run_demo of dextools_v2_demo.py hands no exception to its
\* caller, whatever its steps do and also when DexToolsDemo() raises for a
\* missing API key; and the client, once constructed, is closed exactly once,
\* after the last step.
C29_RunDemoNeverRaises ==
    flow = "dextools_v2_demo" =>
        /\ ret.kind # "raise"
        /\ closes <= 1
        /\ closes = 1 => demo_step = 10
        /\ (demo_step = 10 /\ api_key # "None") => closes = 1

====
